---- MODULE Spec2Model ----
(***************************************************************************)
(* Replication engine of F4D_Pi_V2/MongoUpload: the scheduler loop of      *)
(* main.py, the Remote Authority client query_from_gcp of last_ts_cf.py    *)
(* and the cycle Mongo_Push_Cloud of mongo_api.py (local reader, resume    *)
(* point resolver, batch uploader).                                        *)
(*                                                                         *)
(* Encoding of Python values:                                              *)
(*   - a datetime is a positive integer (a point in time); the integer 0   *)
(*     is Python's int 0, the zero sentinel;                               *)
(*   - a date-time string or a JSON value is a record [fmt, t]: fmt names  *)
(*     the textual format, t the point in time it spells;                  *)
(*   - collection names are 1..3 in sorted order; is_DATA[n] says whether  *)
(*     name n ends with "_DATA";                                           *)
(*   - times of the scheduler are in seconds, as in main.py;               *)
(*   - a document is a record [ts, form, LLA, Labels]: its point in time,  *)
(*     how TimeStamp is stored ("$date": the nested wrapper, "str": a bare *)
(*     string), its sensor and its labels with their options.              *)
(***************************************************************************)
EXTENDS Integers, Sequences, FiniteSets, TLC

\* ---------------------------------------------------------------- bounds
MaxTs == 3        \* points in time a record or an authority answer can carry
MaxRecs == 2      \* documents in the Local Store, all collections together
MaxCycles == 2    \* cycles started in one behaviour of Spec
MaxFails == 15    \* the consecutive-failure counter saturates here
MaxWaitMinutes == 300  \* escaped exceptions stop being drawn above this wait_time
batch_size == 2   \* mongo_api.py:232 sets 5000; scaled down to keep the model finite

\* ------------------------------------------------------ program constants
MINUTE == 60

Names == {1, 2, 3}              \* the collection names of the local database
SortedNames == <<1, 2, 3>>      \* sorted(get_local_collection())
TimeStamps == 1..MaxTs

VARIABLES
  pc,               \* "call": about to call Mongo_Push_Cloud; "push": inside Push_To_Mongo;
                    \* "ret": Mongo_Push_Cloud has returned or raised; "sleep": in time.sleep;
                    \* "exit": the loop was left by an uncaught exception
  wait_time,        \* main.py wait_time, seconds
  first_try,        \* main.py first_try
  success,          \* outcome of Mongo_Push_Cloud: "True", "None" or "raise" ("pending" before)
  slept,            \* seconds of the last completed time.sleep (0: none yet)
  is_DATA,          \* is_DATA[n]: collection name n ends with "_DATA"
  local,            \* local[n]: documents of local collection n in _id (insertion) order
  cloud,            \* cloud[n][i]: how many documents of the cloud collection of experiment n
                    \* are copies of the local document local[n][i]
  resp,             \* AuthSpec: what the Remote Authority did with the last request
  transformed_data, \* AuthSpec: what query_from_gcp returned for it
  dicty_diff,       \* the cursor set of the cycle in flight
  todo,             \* experiments of dicty_diff still to be pushed, in order
  pos,              \* documents of local[Head(todo)] the stream has passed
  cycles,           \* cycles started
  \* history, read only by the properties
  nfail,            \* consecutive falsy cycles since start or last success (-1: an exception broke the run)
  exceeded,         \* wait_time was above 3 hours during that run of failures
  wasReset,         \* and was then reset to 15 minutes
  storeFailed,      \* an insert call raised in the cycle in flight
  dirty,            \* a document was appended since the cycle in flight started
  authority,        \* how the Remote Authority answered in the cycle in flight: "ok", a failure
                    \* of Failures, or "none" when it was not asked
  up,               \* up[n]: timestamp of the last document inserted for n in the cycle in flight (0: none)
  zeroFor,          \* experiments for which query_from_gcp returned the zero sentinel in the cycle in flight
  rerun,            \* the cycle in flight re-runs the previous one: that one returned True with no
                    \* insert failure, no document was appended since it started, and the authority
                    \* now reports, for every experiment, the last timestamp it uploaded
  aborted,          \* experiments whose processing raised in the cycle in flight, each with
                    \* whether documents of it had been inserted by then
  resumed,          \* experiments whose processing raised in the previous cycle and for which the
                    \* authority now reports the newest timestamp present in the Cloud Store, each
                    \* with whether that cycle had inserted documents of it
  raisedAt,         \* where an exception left the try block of Mongo_Push_Cloud in the cycle in
                    \* flight: "list", "read", "resolve", or "none"
  \* Push_To_Mongo with its documents in full (PushSpec)
  batch,            \* batch: indices of the documents appended since the last flush
  inserts,          \* the insert_many calls of the cycle, in order: experiment, batch, documents kept
  blobs,            \* the upload_json_batch_to_gcs calls of the cycle, in order: experiment, batch,
                    \* and whether the blob was written
  cloudLabels,      \* cloudLabels[n][i]: Labels carried by the cloud copies of local[n][i]
  relabels          \* the passes of the label loop of the cycle, in order: experiment, snapshot
                    \* used, and how many insert_many calls had been made by then

schedVars == <<pc, wait_time, first_try, success, slept, nfail, exceeded, wasReset>>
storeVars == <<is_DATA, local, cloud>>
cycleVars == <<resp, transformed_data, dicty_diff, todo, pos, cycles>>
histVars  == <<storeFailed, dirty, authority, up, zeroFor, rerun, aborted, resumed, raisedAt>>
pushVars  == <<batch, inserts, blobs, cloudLabels, relabels>>
vars == <<schedVars, storeVars, cycleVars, histVars, pushVars>>

\* ------------------------------------------------------- scheduler, main.py
\* a success branch that forgets to reset wait_time
SuccessBranch_KeepsWait(w, f) == [w |-> w, f |-> TRUE]

\* main.py:33-37, the branch taken on a truthy result
SuccessBranch(w, f) == [w |-> MINUTE * 15, f |-> TRUE]

\* a failure branch that compares with < instead of <=
FailureBranch_Strict(w, f) ==
  IF ~f
    THEN IF w < 3 * 60 * MINUTE
           THEN [w |-> w + MINUTE * 15, f |-> f]
           ELSE [w |-> MINUTE * 15, f |-> f]
    ELSE [w |-> w, f |-> FALSE]

\* a failure branch that adds 15 minutes on the first failure too
FailureBranch_Eager(w, f) ==
  IF w <= 3 * 60 * MINUTE
    THEN [w |-> w + MINUTE * 15, f |-> FALSE]
    ELSE [w |-> MINUTE * 15, f |-> FALSE]

\* a failure branch without the test of line 41
FailureBranch_NoReset(w, f) ==
  IF ~f THEN [w |-> w + MINUTE * 15, f |-> f]
        ELSE [w |-> w, f |-> FALSE]

\* main.py:38-53, the branch taken on a falsy result
FailureBranch(w, f) ==
  IF ~f
    THEN IF w <= 3 * 60 * MINUTE
           THEN [w |-> w + MINUTE * 15, f |-> f]
           ELSE [w |-> MINUTE * 15, f |-> f]
    ELSE [w |-> w, f |-> FALSE]

\* main.py:54-63, the handler of an exception raised out of the try block
ExceptBranch(w, f) ==
  IF ~f THEN [w |-> w + MINUTE * 15, f |-> f]
        ELSE [w |-> w, f |-> FALSE]

\* a loop without the except clause: an exception leaves it
Caught_NoHandler(outcome) == outcome # "raise"

\* main.py:54, "except Exception" catches what Mongo_Push_Cloud raises
Caught(outcome) == TRUE

\* main.py:28-63, one pass of the loop body after the call at line 32
LoopBody(outcome, w, f) ==
  CASE outcome = "True" -> SuccessBranch(w, f)
    [] outcome = "None" -> FailureBranch(w, f)
    [] OTHER            -> ExceptBranch(w, f)

Min(a, b) == IF a < b THEN a ELSE b

\* main.py:33-63: the scheduler takes its branch on the outcome of the call
SchedulerBranch ==
  /\ pc = "ret"
  /\ LET s == LoopBody(success, wait_time, first_try) IN
       /\ wait_time' = s.w
       /\ first_try' = s.f
       /\ nfail' = CASE success = "True" -> 0
                     [] success = "None" /\ nfail >= 0 -> Min(nfail + 1, MaxFails)
                     [] OTHER -> -1
       /\ exceeded' = (success # "True" /\ (exceeded \/ s.w > 3 * 60 * MINUTE))
       /\ wasReset' = (success # "True" /\
                         (wasReset \/ (wait_time > 3 * 60 * MINUTE /\ s.w = MINUTE * 15)))
  /\ pc' = IF Caught(success) THEN "sleep" ELSE "exit"
  /\ authority' = "none"
  /\ zeroFor' = {}
  /\ rerun' = FALSE
  /\ resumed' = <<>>
  /\ up' = IF success = "True" /\ ~storeFailed THEN up ELSE [n \in Names |-> 0]
  /\ raisedAt' = "none"
  /\ UNCHANGED <<success, slept, storeVars, cycleVars, storeFailed, dirty, aborted, pushVars>>

\* main.py:65-68, time.sleep(wait_time), then the next pass of while True
Sleep ==
  /\ pc = "sleep"
  /\ pc' = "call"
  /\ slept' = wait_time
  /\ UNCHANGED <<wait_time, first_try, success, nfail, exceeded, wasReset,
                 storeVars, cycleVars, histVars, pushVars>>

\* main.py:32 seen from the loop alone: Mongo_Push_Cloud returns True, returns
\* None, or an exception leaves it
CallOutcome ==
  /\ pc = "call"
  /\ \E o \in {"True", "None", "raise"} :
       /\ o = "raise" => wait_time + MINUTE * 15 <= MaxWaitMinutes * MINUTE
       /\ success' = o
  /\ pc' = "ret"
  /\ UNCHANGED <<wait_time, first_try, slept, nfail, exceeded, wasReset,
                 storeVars, cycleVars, histVars, pushVars>>

\* no call made yet: the scheduler as main.py:19-26 leaves it, no cycle in flight
Idle ==
  /\ wait_time = MINUTE * 15
  /\ first_try = TRUE
  /\ success = "pending"
  /\ slept = 0
  /\ nfail = 0
  /\ exceeded = FALSE
  /\ wasReset = FALSE
  /\ resp = [kind |-> "none", body |-> <<>>]
  /\ transformed_data = [none |-> TRUE, data |-> <<>>]
  /\ batch = <<>>
  /\ inserts = <<>>
  /\ blobs = <<>>
  /\ relabels = <<>>
  /\ raisedAt = "none"
  /\ pos = 0
  /\ cycles = 0
  /\ storeFailed = FALSE
  /\ dirty = FALSE
  /\ authority = "none"
  /\ up = [n \in Names |-> 0]
  /\ zeroFor = {}
  /\ rerun = FALSE
  /\ aborted = <<>>
  /\ resumed = <<>>

\* the state main.py:19-26 and the imports leave: nothing asked, nothing pushed,
\* the stores empty
Start ==
  /\ Idle
  /\ local = [n \in Names |-> <<>>]
  /\ cloud = [n \in Names |-> [i \in 1..MaxRecs |-> 0]]
  /\ cloudLabels = [n \in Names |-> [i \in 1..MaxRecs |-> 0]]
  /\ dicty_diff = <<>>
  /\ todo = <<>>

SchedInit ==
  /\ Start
  /\ pc = "call"
  /\ is_DATA = <<FALSE, TRUE, TRUE>>

SchedNext == CallOutcome \/ SchedulerBranch \/ Sleep

\* the scheduler loop with the outcome of each call left open
SchedSpec == SchedInit /\ [][SchedNext]_vars

\* main.py:32 when no exception leaves Mongo_Push_Cloud: it returns True, or
\* None after its own handler at mongo_api.py:334
CallReturns ==
  /\ pc = "call"
  /\ success' \in {"True", "None"}
  /\ pc' = "ret"
  /\ UNCHANGED <<wait_time, first_try, slept, nfail, exceeded, wasReset,
                 storeVars, cycleVars, histVars, pushVars>>

ReturnNext == CallReturns \/ SchedulerBranch \/ Sleep

\* the scheduler loop when every call returns
ReturnSpec == SchedInit /\ [][ReturnNext]_vars

\* the same, with the loop's own progress once the call is over: the branch is
\* taken and time.sleep returns
FairSchedSpec == SchedSpec /\ WF_vars(SchedulerBranch) /\ WF_vars(Sleep)

\* ------------------------------------------- date-time strings and JSON
Zero == [fmt |-> "zero", t |-> 0]                 \* the JSON number 0
SpaceStr(d) == [fmt |-> "space", t |-> d]         \* "YYYY-MM-DD HH:MM:SS"
IsoZStr(d) == [fmt |-> "T_Z", t |-> d]            \* "YYYY-MM-DDTHH:MM:SSZ"
BadStr == [fmt |-> "bad", t |-> 0]                \* a value no format parses
JsonVals == {Zero} \cup {SpaceStr(d) : d \in TimeStamps}

\* datetime.strptime(s, fmt): raises unless s is written in fmt
CanParse(s, fmt) == s.fmt = fmt
strptime(s) == s.t

\* last_sync_time.isoformat() + "Z", mongo_api.py:222
isoformatZ(d) == IsoZStr(d)

\* $gte in place of $gt
StrGt_OrEqual(a, b) == a.fmt = b.fmt /\ a.t >= b.t

\* MongoDB's $gt on two strings of the same fixed-width format
StrGt(a, b) == a.fmt = b.fmt /\ a.t > b.t

\* a document of a local collection
Doc(t, f, s, l) == [ts |-> t, form |-> f, LLA |-> s, Labels |-> l]

\* doc["TimeStamp"] is the dict {"$date": string}; if not, it is the bare string
HasDate(doc) == doc.form = "$date"

\* doc["TimeStamp"]["$date"] of a local document
TimeStampDate(doc) == IsoZStr(doc.ts)

\* ------------------------------------------------ local reader, mongo_api.py
\* mongo_api.py:328, sorted(get_local_collection())[1:]
exp_names == {SortedNames[i] : i \in 2..Len(SortedNames)}

\* mongo_api.py:71-101
check_exp_name_exists_local(exp_name_list, loc) ==
  [n \in {m \in exp_name_list : is_DATA[m]} |->
     [last_local  |-> IF loc[n] # <<>> THEN strptime(TimeStampDate(loc[n][Len(loc[n])])) ELSE 0,
      first_local |-> IF loc[n] # <<>> THEN strptime(TimeStampDate(loc[n][1])) ELSE 0]]

\* mongo_api.py:85, 91: subscripting a bare string with "$date" raises TypeError
ReadRaises(exp_name_list, loc) ==
  \E n \in exp_name_list :
    /\ is_DATA[n]
    /\ loc[n] # <<>>
    /\ ~HasDate(loc[n][Len(loc[n])]) \/ ~HasDate(loc[n][1])

\* -------------------------------------------- authority client, last_ts_cf.py
NoneValue == [none |-> TRUE, data |-> <<>>]

\* what the Remote Authority can do with a request for the names req:
\* "token": credentials.refresh raises; "transport": requests.post raises for
\* want of a route; "timeout": it raises for want of an answer; "non200": a response with another status; "badjson": a 200 response whose
\* body is not JSON; "ok": a 200 response with a JSON object that gives every
\* name requested 0 or a date-time string, or that lacks some of the names, or
\* that holds a value that is neither
Responses(req) ==
  {[kind |-> k, body |-> <<>>] : k \in {"token", "transport", "timeout", "non200", "badjson"}}
    \cup {[kind |-> "ok", body |-> b] : b \in [req -> JsonVals]}
    \cup {[kind |-> "ok", body |-> [n \in S |-> Zero]] : S \in (SUBSET req) \ {req}}
    \cup {[kind |-> "ok", body |-> [n \in req |-> IF n = m THEN BadStr ELSE Zero]] : m \in req}

\* last_ts_cf.py:13-77
query_from_gcp(experiment_names, r) ==
  CASE r.kind = "ok" ->
         IF \A k \in DOMAIN r.body : r.body[k] = Zero \/ CanParse(r.body[k], "space")
           THEN [none |-> FALSE, data |-> r.body]
           ELSE NoneValue
    [] r.kind = "non200" -> [none |-> FALSE, data |-> [k \in experiment_names |-> Zero]]
    [] OTHER -> NoneValue

\* ------------------------------------------ resume point resolver, mongo_api.py
\* a resolver that also selects an experiment whose delta is zero
DeltaPositive_OrEqual(delta_seconds) == delta_seconds >= 0

\* mongo_api.py:138
DeltaPositive(delta_seconds) == delta_seconds > 0

\* a resolver that always starts from the first local record
Resolve_FromFirst(dl, global_time) ==
  IF dl.last_local = 0 \/ DeltaPositive(dl.last_local - dl.first_local)
    THEN [sel |-> TRUE, cur |-> dl.first_local]
    ELSE [sel |-> FALSE, cur |-> 0]

\* mongo_api.py:129-149, one experiment: is it selected, and with which cursor
Resolve(dl, global_time) ==
  LET zero == global_time = Zero
      raises == \/ ~zero /\ ~CanParse(global_time, "space")
                \/ dl.last_local = 0
                \/ zero /\ dl.first_local = 0
      global_time_new == IF zero THEN dl.first_local ELSE strptime(global_time)
  IN  IF raises THEN [sel |-> TRUE, cur |-> dl.first_local]
      ELSE IF DeltaPositive(dl.last_local - global_time_new)
             THEN [sel |-> TRUE, cur |-> global_time_new]
             ELSE [sel |-> FALSE, cur |-> 0]

\* mongo_api.py:104-151; raised: an exception leaves the function (line 127)
check_deltaTime_GCP(dicty_local, exp_name_list, r) ==
  LET td == query_from_gcp({n \in exp_name_list : is_DATA[n]}, r)
      raised == \E n \in DOMAIN dicty_local : td.none \/ n \notin DOMAIN td.data
      sel == {n \in DOMAIN dicty_local : Resolve(dicty_local[n], td.data[n]).sel}
  IN  [raised |-> raised,
       diff |-> IF raised THEN <<>>
                ELSE [n \in sel |-> Resolve(dicty_local[n], td.data[n]).cur]]

\* ----------------------------------------------- batch uploader, mongo_api.py
\* mongo_api.py:217-223, the query filter
Matches(doc, last_sync_time) ==
  \/ last_sync_time = 0
  \/ HasDate(doc) /\ StrGt(TimeStampDate(doc), isoformatZ(last_sync_time))

\* documents of experiment e the stream has still to yield
Pending(e) == {i \in (pos + 1)..Len(local[e]) : Matches(local[e][i], dicty_diff[e])}

\* the next batch: the first batch_size pending documents
NextBatch(e) == {i \in Pending(e) : Cardinality({j \in Pending(e) : j < i}) < batch_size}

Max(S) == CHOOSE x \in S : \A y \in S : y <= x

TotalDocs == Cardinality({<<n, i>> \in Names \X (1..MaxRecs) : i <= Len(local[n])})

\* how a response reads to the caller: "ok" when query_from_gcp hands back a
\* body with every name asked for, else the failure met
Unreachable == {"token", "transport", "timeout"}
Failures == {"unreachable", "non200", "badjson", "badvalue", "missing"}
Reading(req, r) ==
  CASE r.kind \in Unreachable -> "unreachable"
    [] r.kind # "ok" -> r.kind
    [] query_from_gcp(req, r).none -> "badvalue"
    [] DOMAIN r.body # req -> "missing"
    [] OTHER -> "ok"

\* what a Remote Authority that knows the Cloud Store reports for experiment n:
\* the newest timestamp among its documents there, 0 when there is none
NewestDurable(n) ==
  LET D == {i \in 1..Len(local[n]) : cloud[n][i] >= 1}
  IN  IF D = {} THEN Zero ELSE SpaceStr(Max({local[n][i].ts : i \in D}))

\* mongo_api.py:325-332: list, read first and last, ask the authority, resolve
\* and enter Push_To_Mongo; an exception on the way is caught at line 334 and
\* None is returned
StartCycle ==
  /\ pc = "call"
  /\ cycles < MaxCycles
  /\ cycles' = cycles + 1
  /\ \/ \* get_local_collection raises (the local database is down), or
        \* check_exp_name_exists_local raises on a bare TimeStamp
        /\ raisedAt' \in {"list"} \cup (IF ReadRaises(exp_names, local) THEN {"read"} ELSE {})
        /\ authority' = "none"
        /\ dicty_diff' = <<>>
        /\ todo' = <<>>
        /\ success' = "None"
        /\ pc' = "ret"
        /\ zeroFor' = {}
        /\ rerun' = FALSE
        /\ resumed' = <<>>
     \/ \E r \in Responses({n \in exp_names : is_DATA[n]}) :
          LET req == {n \in exp_names : is_DATA[n]}
              dicty_local == check_exp_name_exists_local(exp_names, local)
              g == check_deltaTime_GCP(dicty_local, exp_names, r)
              td == query_from_gcp(req, r)
          IN  /\ ~ReadRaises(exp_names, local)
              /\ raisedAt' = IF g.raised THEN "resolve" ELSE "none"
              /\ authority' = Reading(req, r)
              /\ dicty_diff' = g.diff
              /\ todo' = SelectSeq(SortedNames, LAMBDA n : n \in DOMAIN g.diff)
              /\ success' = IF g.raised THEN "None" ELSE "pending"
              /\ pc' = IF g.raised THEN "ret" ELSE "push"
              /\ zeroFor' = {n \in DOMAIN dicty_local \cap DOMAIN td.data : td.data[n] = Zero}
              /\ rerun' = /\ success = "True" /\ ~storeFailed /\ ~dirty
                          /\ r.kind = "ok"
                          /\ \A n \in DOMAIN dicty_local :
                                /\ up[n] # 0
                                /\ n \in DOMAIN r.body
                                /\ r.body[n] = SpaceStr(up[n])
              /\ resumed' = [n \in {m \in DOMAIN aborted \cap DOMAIN dicty_local :
                                       /\ r.kind = "ok"
                                       /\ m \in DOMAIN r.body
                                       /\ r.body[m] = NewestDurable(m)} |-> aborted[n]]
  /\ pos' = 0
  /\ storeFailed' = FALSE
  /\ aborted' = <<>>
  /\ dirty' = FALSE
  /\ up' = [n \in Names |-> 0]
  /\ UNCHANGED <<wait_time, first_try, slept, nfail, exceeded, wasReset, storeVars,
                 resp, transformed_data, pushVars>>

\* an insert that stops at the first rejected document, as ordered=True would
insert_many_Ordered(docs, fail) ==
  IF fail = -1 THEN {} ELSE {i \in docs : fail = 0 \/ i < fail}

\* mongo_api.py:266, 288, insert_many(batch, ordered=False): the documents of
\* docs the Cloud Store holds after the call. fail = 0: all of them; fail = -1:
\* none, the store was not reached; fail in docs: that one is rejected, and as
\* the insert is unordered every other one is written before the call raises
insert_many(docs, fail) ==
  IF fail = -1 THEN {} ELSE docs \ {fail}

\* mongo_api.py:239-299, up to one insert_many call of the experiment in hand:
\* it inserts the batch (fail = 0), or raises having inserted nothing
\* (fail = -1) or all of the batch but document fail; the exception is caught
\* at line 318 and ends the experiment
PushBatch ==
  /\ pc = "push"
  /\ todo # <<>>
  /\ LET e == Head(todo)
         docs == NextBatch(e)
     IN  /\ docs # {}
         /\ \E fail \in {-1, 0} \cup docs :
              LET kept == insert_many(docs, fail)
              IN  /\ cloud' = [cloud EXCEPT ![e] =
                                 [i \in DOMAIN @ |-> IF i \in kept THEN @[i] + 1 ELSE @[i]]]
                  /\ up' = IF kept = {} THEN up
                           ELSE [up EXCEPT ![e] = local[e][Max(kept)].ts]
                  /\ IF fail = 0
                       THEN /\ pos' = Max(docs)
                            /\ UNCHANGED <<todo, storeFailed, aborted>>
                       ELSE /\ pos' = 0
                            /\ todo' = Tail(todo)
                            /\ storeFailed' = TRUE
                            /\ aborted' = [n \in DOMAIN aborted \cup {e} |->
                                             IF n = e THEN up'[e] # 0 ELSE aborted[n]]
  /\ UNCHANGED <<schedVars, is_DATA, local, resp, transformed_data, dicty_diff, cycles,
                 dirty, authority, zeroFor, rerun, resumed, raisedAt, pushVars>>

\* mongo_api.py:283-316 once the stream is exhausted and the last batch flushed:
\* the experiment is finished and the loop of line 212 moves on
FinishExperiment ==
  /\ pc = "push"
  /\ todo # <<>>
  /\ Pending(Head(todo)) = {}
  /\ todo' = Tail(todo)
  /\ pos' = 0
  /\ UNCHANGED <<schedVars, storeVars, resp, transformed_data, dicty_diff, cycles, histVars,
                 pushVars>>

\* a Push_To_Mongo that lets the exception of an experiment through to the
\* handler of Mongo_Push_Cloud
PushOutcome_Propagates(failed) == IF failed THEN "None" ELSE "True"

\* mongo_api.py:318-319, 332-333: what an experiment raised was caught inside
\* Push_To_Mongo, which returns normally whether or not an experiment failed;
\* Mongo_Push_Cloud then returns True
PushOutcome(failed) == "True"

\* mongo_api.py:332-333: Push_To_Mongo has returned, Mongo_Push_Cloud returns True
PushDone ==
  /\ pc = "push"
  /\ todo = <<>>
  /\ success' = PushOutcome(storeFailed)
  /\ pc' = "ret"
  /\ UNCHANGED <<wait_time, first_try, slept, nfail, exceeded, wasReset,
                 storeVars, cycleVars, histVars, pushVars>>

\* the gateway's writer appends a document to a data collection of the Local Store;
\* here it writes TimeStamp in the nested form, for one sensor with one set of labels
AppendLocal ==
  /\ pc = "sleep"
  /\ TotalDocs < MaxRecs
  /\ \E n \in Names, d \in TimeStamps :
       /\ is_DATA[n]
       /\ local' = [local EXCEPT ![n] = Append(@, Doc(d, "$date", 1, 1))]
  /\ dirty' = TRUE
  /\ UNCHANGED <<schedVars, is_DATA, cloud, cycleVars, storeFailed, authority, up, zeroFor,
                 rerun, aborted, resumed, raisedAt, pushVars>>

Init ==
  /\ Start
  /\ pc = "sleep"
  /\ is_DATA \in {<<FALSE, TRUE, TRUE>>, <<TRUE, TRUE, FALSE>>}

Next ==
  \/ StartCycle \/ PushBatch \/ FinishExperiment \/ PushDone
  \/ SchedulerBranch \/ Sleep \/ AppendLocal

\* the replication engine: scheduler, cycle and the writer of the Local Store
Spec == Init /\ [][Next]_vars

\* the sequences of len documents written in time order (document i carries the
\* point in time i + 1), their other fields drawn from the sets given
DocSeqs(len, forms, sensors, labels) ==
  {[i \in 1..len |-> Doc(i + 1, f[i][1], f[i][2], f[i][3])] :
     f \in [1..len -> forms \X sensors \X labels]}

\* the Local Stores with at most maxDocs such documents, all in data collections
Stores(maxDocs, forms, sensors, labels) ==
  UNION {{<<a, b, c>> : a \in DocSeqs(l[1], forms, sensors, labels),
                        b \in DocSeqs(l[2], forms, sensors, labels),
                        c \in DocSeqs(l[3], forms, sensors, labels)} :
           l \in {k \in [Names -> 0..maxDocs] :
                    /\ k[1] + k[2] + k[3] <= maxDocs
                    /\ \A n \in Names : ~is_DATA[n] => k[n] = 0}}

\* ------------------------------- Push_To_Mongo with its documents in full
Sensors == {1, 2}
LabelSets == {1, 2}
MaxDocs == batch_size + 1     \* enough documents for a batch after a full one

Range(sq) == {sq[i] : i \in 1..Len(sq)}
First(S) == CHOOSE x \in S : \A y \in S : x <= y

\* a batch that is flushed one document early
BatchFull_Early(b) == Len(b) = batch_size - 1

\* a batch that is flushed one document late
BatchFull_Late(b) == Len(b) = batch_size + 1

\* mongo_api.py:263, if len(batch) == batch_size
BatchFull(b) == Len(b) = batch_size

\* the documents of experiment e that the cursor of find(query) has yielded
Streamed(e) == {i \in 1..pos : Matches(local[e][i], dicty_diff[e])}

\* a snapshot that keeps the first document seen of each sensor
last_seen_doc_by_LLa_First(e) ==
  [s \in {local[e][i].LLA : i \in Streamed(e)} |->
     local[e][First({i \in Streamed(e) : local[e][i].LLA = s})].Labels]

\* mongo_api.py:235, 252-254: for each sensor streamed, the Labels of the last
\* of its documents seen
last_seen_doc_by_LLa(e) ==
  [s \in {local[e][i].LLA : i \in Streamed(e)} |->
     local[e][Max({i \in Streamed(e) : local[e][i].LLA = s})].Labels]

\* mongo_api.py:239-261, one pass of the for loop up to the append
StreamDoc ==
  /\ pc = "push"
  /\ todo # <<>>
  /\ ~BatchFull(batch)
  /\ Pending(Head(todo)) # {}
  /\ LET i == First(Pending(Head(todo)))
     IN  /\ batch' = Append(batch, i)
         /\ pos' = i
  /\ UNCHANGED <<schedVars, storeVars, resp, transformed_data, dicty_diff, todo, cycles,
                 histVars, inserts, blobs, cloudLabels, relabels>>

\* mongo_api.py:266-280 and 288-299: insert_many, then upload_json_batch_to_gcs,
\* which catches what it raises (lines 49-50), then the batch is cleared; an
\* exception of insert_many is caught at line 318 and ends the experiment
InsertAndArchive ==
  LET e == Head(todo)
      docs == Range(batch)
  IN  \E fail \in {-1, 0} \cup docs, gcs \in BOOLEAN :
        LET kept == insert_many(docs, fail)
        IN  /\ cloud' = [cloud EXCEPT ![e] =
                           [i \in DOMAIN @ |-> IF i \in kept THEN @[i] + 1 ELSE @[i]]]
            /\ cloudLabels' = [cloudLabels EXCEPT ![e] =
                                 [i \in DOMAIN @ |-> IF i \in kept THEN local[e][i].Labels
                                                                   ELSE @[i]]]
            /\ inserts' = Append(inserts, [exp |-> e, seq |-> batch, docs |-> docs,
                                           rejected |-> fail, kept |-> kept])
            /\ up' = IF kept = {} THEN up ELSE [up EXCEPT ![e] = local[e][Max(kept)].ts]
            /\ batch' = <<>>
            /\ IF fail = 0
                 THEN /\ blobs' = Append(blobs, [exp |-> e, docs |-> docs, ok |-> gcs])
                      /\ UNCHANGED <<todo, pos, storeFailed, aborted>>
                 ELSE /\ gcs
                      /\ blobs' = blobs
                      /\ todo' = Tail(todo)
                      /\ pos' = 0
                      /\ storeFailed' = TRUE
                      /\ aborted' = [n \in DOMAIN aborted \cup {e} |->
                                       IF n = e THEN up'[e] # 0 ELSE aborted[n]]

\* mongo_api.py:263-280, the flush of a full batch inside the loop
FlushFull ==
  /\ pc = "push"
  /\ todo # <<>>
  /\ BatchFull(batch)
  /\ InsertAndArchive
  /\ UNCHANGED <<schedVars, is_DATA, local, resp, transformed_data, dicty_diff, cycles,
                 dirty, authority, zeroFor, rerun, resumed, raisedAt, relabels>>

\* mongo_api.py:283-299, the flush of what is left once the stream is exhausted
FlushRest ==
  /\ pc = "push"
  /\ todo # <<>>
  /\ Pending(Head(todo)) = {}
  /\ batch # <<>>
  /\ ~BatchFull(batch)
  /\ InsertAndArchive
  /\ UNCHANGED <<schedVars, is_DATA, local, resp, transformed_data, dicty_diff, cycles,
                 dirty, authority, zeroFor, rerun, resumed, raisedAt, relabels>>

\* a label loop placed before the flush of the remainder
FlushedAll_BeforeRest(e) == Pending(e) = {}

\* mongo_api.py:283-301: the label loop comes after the for loop over the
\* stream and after the flush of the remainder, which leaves batch empty
FlushedAll(e) == Pending(e) = {} /\ batch = <<>>

\* mongo_api.py:301-319: update_many for every sensor of the snapshot, on the
\* cloud collection of this experiment; the loop of line 212 then moves on. An
\* exception of update_many is caught at line 318
UpdateLabels ==
  /\ pc = "push"
  /\ todo # <<>>
  /\ FlushedAll(Head(todo))
  /\ LET e == Head(todo)
         snap == last_seen_doc_by_LLa(e)
     IN  \E ok \in BOOLEAN :
           /\ DOMAIN snap = {} => ok
           /\ IF ok
                THEN /\ cloudLabels' = [cloudLabels EXCEPT ![e] =
                          [i \in DOMAIN @ |->
                             IF /\ i <= Len(local[e])
                                /\ cloud[e][i] >= 1
                                /\ local[e][i].LLA \in DOMAIN snap
                               THEN snap[local[e][i].LLA] ELSE @[i]]]
                     /\ relabels' = Append(relabels, [exp |-> e, snap |-> snap,
                                                      after |-> Len(inserts)])
                     /\ UNCHANGED <<storeFailed, aborted>>
                ELSE /\ storeFailed' = TRUE
                     /\ aborted' = [n \in DOMAIN aborted \cup {e} |->
                                      IF n = e THEN up[e] # 0 ELSE aborted[n]]
                     /\ UNCHANGED <<cloudLabels, relabels>>
  /\ todo' = Tail(todo)
  /\ pos' = 0
  /\ UNCHANGED <<schedVars, is_DATA, local, cloud, resp, transformed_data, dicty_diff, cycles,
                 dirty, authority, up, zeroFor, rerun, resumed, raisedAt, batch, inserts, blobs>>

\* the cursor sets check_deltaTime_GCP can hand to Push_To_Mongo for the store loc
CursorSets(loc) ==
  LET dicty_local == check_exp_name_exists_local(exp_names, loc)
  IN  {check_deltaTime_GCP(dicty_local, exp_names, r).diff :
         r \in {q \in Responses({n \in exp_names : is_DATA[n]}) :
                  ~check_deltaTime_GCP(dicty_local, exp_names, q).raised}}

\* a document is in the Cloud Store at the start when it is not later than the
\* cursor of its experiment, or when its experiment is not selected
Uploaded(loc, diff, n, i) ==
  /\ i <= Len(loc[n])
  /\ n \notin DOMAIN diff \/ ~Matches(loc[n][i], diff[n])

\* mongo_api.py:201-211: Push_To_Mongo entered with a cursor set of the resolver
PushInit ==
  /\ Idle
  /\ pc = "push"
  /\ is_DATA = <<FALSE, TRUE, TRUE>>
  /\ local \in Stores(MaxDocs, {"$date"}, Sensors, LabelSets)
  /\ dicty_diff \in CursorSets(local)
  /\ todo = SelectSeq(SortedNames, LAMBDA n : n \in DOMAIN dicty_diff)
  /\ cloud = [n \in Names |-> [i \in 1..MaxDocs |->
                IF Uploaded(local, dicty_diff, n, i) THEN 1 ELSE 0]]
  /\ cloudLabels = [n \in Names |-> [i \in 1..MaxDocs |->
                      IF Uploaded(local, dicty_diff, n, i) THEN local[n][i].Labels ELSE 0]]

PushNext == StreamDoc \/ FlushFull \/ FlushRest \/ UpdateLabels \/ PushDone

\* Push_To_Mongo alone, one call, the stores and the calls made in full
PushSpec == PushInit /\ [][PushNext]_vars

\* Push_To_Mongo entered in the third cycle of a process whose first two
\* cycles returned None: first_try is false and wait_time is 30 minutes
OutcomeInit ==
  /\ pc = "push"
  /\ wait_time = 30 * MINUTE
  /\ first_try = FALSE
  /\ success = "pending"
  /\ slept = 30 * MINUTE
  /\ nfail = 2
  /\ exceeded = FALSE
  /\ wasReset = FALSE
  /\ cycles = 3
  /\ resp = [kind |-> "none", body |-> <<>>]
  /\ transformed_data = NoneValue
  /\ batch = <<>> /\ inserts = <<>> /\ blobs = <<>> /\ relabels = <<>>
  /\ raisedAt = "none"
  /\ pos = 0
  /\ storeFailed = FALSE
  /\ dirty = FALSE
  /\ authority = "none"
  /\ up = [n \in Names |-> 0]
  /\ zeroFor = {}
  /\ rerun = FALSE
  /\ aborted = <<>>
  /\ resumed = <<>>
  /\ is_DATA = <<FALSE, TRUE, TRUE>>
  /\ local \in Stores(MaxDocs, {"$date"}, {1}, {1})
  /\ dicty_diff \in CursorSets(local)
  /\ todo = SelectSeq(SortedNames, LAMBDA n : n \in DOMAIN dicty_diff)
  /\ cloud = [n \in Names |-> [i \in 1..MaxDocs |->
                IF Uploaded(local, dicty_diff, n, i) THEN 1 ELSE 0]]
  /\ cloudLabels = [n \in Names |-> [i \in 1..MaxDocs |->
                      IF Uploaded(local, dicty_diff, n, i) THEN local[n][i].Labels ELSE 0]]

OutcomeNext == PushNext \/ SchedulerBranch

\* Push_To_Mongo, the return of Mongo_Push_Cloud and the branch the scheduler
\* takes on it
OutcomeSpec == OutcomeInit /\ [][OutcomeNext]_vars

\* mongo_api.py:325-335 alone: Mongo_Push_Cloud called once on a Local Store
\* whose documents carry TimeStamp in either form
CycleInit ==
  /\ Idle
  /\ pc = "call"
  /\ is_DATA \in {<<FALSE, TRUE, TRUE>>, <<TRUE, TRUE, FALSE>>}
  /\ local \in Stores(MaxRecs, {"$date", "str"}, {1}, {1})
  /\ cloud = [n \in Names |-> [i \in 1..MaxRecs |-> 0]]
  /\ cloudLabels = [n \in Names |-> [i \in 1..MaxRecs |-> 0]]
  /\ dicty_diff = <<>>
  /\ todo = <<>>

CycleNext == StartCycle \/ PushBatch \/ FinishExperiment \/ PushDone

CycleSpec == CycleInit /\ [][CycleNext]_vars

\* mongo_api.py:328-331 alone: the names are listed, first and last documents
\* read, the Remote Authority asked and the cursor set resolved; what the
\* authority answered and what query_from_gcp made of it are kept
AskAndResolve ==
  /\ pc = "call"
  /\ ~ReadRaises(exp_names, local)
  /\ \E r \in Responses({n \in exp_names : is_DATA[n]}) :
       LET req == {n \in exp_names : is_DATA[n]}
           dicty_local == check_exp_name_exists_local(exp_names, local)
           g == check_deltaTime_GCP(dicty_local, exp_names, r)
       IN  /\ resp' = r
           /\ transformed_data' = query_from_gcp(req, r)
           /\ raisedAt' = IF g.raised THEN "resolve" ELSE "none"
           /\ authority' = Reading(req, r)
           /\ dicty_diff' = g.diff
           /\ todo' = SelectSeq(SortedNames, LAMBDA n : n \in DOMAIN g.diff)
           /\ success' = IF g.raised THEN "None" ELSE "pending"
           /\ pc' = IF g.raised THEN "ret" ELSE "push"
  /\ cycles' = cycles + 1
  /\ UNCHANGED <<wait_time, first_try, slept, nfail, exceeded, wasReset, storeVars, pos,
                 storeFailed, dirty, up, zeroFor, rerun, aborted, resumed, pushVars>>

\* the resolver called once, on a Local Store of documents in the nested form
ResolverInit ==
  /\ Idle
  /\ pc = "call"
  /\ is_DATA \in {<<FALSE, TRUE, TRUE>>, <<TRUE, TRUE, FALSE>>}
  /\ local \in Stores(MaxRecs, {"$date"}, {1}, {1})
  /\ cloud = [n \in Names |-> [i \in 1..MaxRecs |-> 0]]
  /\ cloudLabels = [n \in Names |-> [i \in 1..MaxRecs |-> 0]]
  /\ dicty_diff = <<>>
  /\ todo = <<>>

ResolverSpec == ResolverInit /\ [][AskAndResolve]_vars

\* last_ts_cf.py:13-77 alone: one call of query_from_gcp with the names of the
\* data collections as payload and any behaviour of the Remote Authority
QueryAuthority ==
  /\ \E r \in Responses({n \in exp_names : is_DATA[n]}) :
       /\ resp' = r
       /\ transformed_data' = query_from_gcp({n \in exp_names : is_DATA[n]}, r)
  /\ UNCHANGED <<schedVars, storeVars, dicty_diff, todo, pos, cycles, histVars, pushVars>>

AuthInit ==
  /\ Start
  /\ pc = "call"
  /\ is_DATA \in [Names -> BOOLEAN]

\* the Remote Authority client, asked again and again
AuthSpec == AuthInit /\ [][QueryAuthority]_vars

\* ------------------------------------------------------------- properties
\* C1 as stated: after 12 consecutive failed cycles from (15 minutes, first_try)
\* wait_time has been above 180 minutes and has then been reset to 15 minutes.
C1_After12Failures == nfail = 12 => (exceeded /\ wasReset)

\* C1 amended: after 12 consecutive failed cycles wait_time is exactly 180
\* minutes and has never been above; the 13th takes it to 195 minutes and the
\* 14th resets it to 15 minutes.
C1_After14Failures ==
  /\ nfail = 12 => (wait_time = 180 * MINUTE /\ ~exceeded /\ ~wasReset)
  /\ nfail = 13 => (wait_time = 195 * MINUTE /\ exceeded /\ ~wasReset)
  /\ nfail = 14 => (wait_time = 15 * MINUTE /\ exceeded /\ wasReset)

C1_Witness == nfail = 14 /\ pc = "sleep" /\ wasReset

\* C2: right after a cycle with a truthy result wait_time is 15 minutes and
\* first_try is true, whatever preceded, and the sleep that follows lasts
\* exactly 15 minutes.
C2_SuccessResets ==
  /\ (pc = "sleep" /\ success = "True") => (wait_time = 15 * MINUTE /\ first_try)
  /\ (pc = "call" /\ success = "True") => slept = 15 * MINUTE

\* a success after a run of failures that had taken the sleep to 3 hours
C2_Witness ==
  /\ pc = "sleep" /\ success = "True"
  /\ slept = 180 * MINUTE /\ wait_time = 15 * MINUTE

\* C3: the loop is never left, and after every outcome of the call (truthy,
\* falsy, exception) the scheduler sleeps for wait_time and reaches the next call.
C3_LoopNeverStops ==
  /\ [](pc # "exit")
  /\ \A o \in {"True", "None", "raise"} :
       (pc = "ret" /\ success = o) ~> (pc = "call" /\ success = o /\ slept = wait_time)

\* the next call is reached after two exceptions in a row
C3_Witness ==
  pc = "call" /\ success = "raise" /\ slept = wait_time /\ slept = 30 * MINUTE

\* C4: when the token refresh fails, the request meets a transport error or a
\* timeout, or the response is not a 200, query_from_gcp returns a map that
\* holds the zero sentinel for every name of the payload, and never None.
C4_ZerosOnAnyFailure ==
  resp.kind \in Unreachable \cup {"non200"} =>
    /\ ~transformed_data.none
    /\ transformed_data.data = [n \in {m \in exp_names : is_DATA[m]} |-> Zero]

\* C5: a cycle in which the Remote Authority failed (unreachable, non-200,
\* malformed body, a value that is no date-time, a name missing) does not fail:
\* Mongo_Push_Cloud returns True and the failure branch is not taken.
C5_AuthorityFailureNotFatal ==
  (pc = "ret" /\ authority \in Failures) => success = "True"

\* C6: in a cycle where the Remote Authority was unreachable, or gave the zero
\* sentinel for an experiment, every such experiment with at least one local
\* record is in the cursor set with cursor local_first.
C6_FallbackSelectsAll ==
  (pc \in {"push", "ret"} /\ authority # "none") =>
    \A n \in exp_names :
      (is_DATA[n] /\ local[n] # <<>> /\ (authority = "unreachable" \/ n \in zeroFor)) =>
        /\ n \in DOMAIN dicty_diff
        /\ dicty_diff[n] = local[n][1].ts

\* C7: when a cycle has completed with no insert failure, every local record
\* of an experiment for which the authority gave the zero sentinel, the
\* earliest included, is in the Cloud Store.
C7_FallbackDeliversAll ==
  (pc = "ret" /\ success = "True" /\ ~storeFailed) =>
    \A n \in zeroFor : \A i \in 1..Len(local[n]) : cloud[n][i] >= 1

C9_CursorMonotone ==
  [][\A n \in DOMAIN dicty_diff \cap DOMAIN dicty_diff' : dicty_diff'[n] >= dicty_diff[n]]_vars

\* C10: no local record is inserted into the Cloud Store more than once.
C10_NoResend ==
  \A n \in Names : \A i \in 1..MaxRecs : cloud[n][i] <= 1

\* C11: when a cycle had inserted part of an experiment and then raised, and the
\* authority afterwards reports the newest timestamp present in the Cloud Store,
\* a cycle that then completes with no failure leaves every local record of
\* that experiment in the Cloud Store.
C11_ResumeDeliversAll ==
  (pc = "ret" /\ success = "True" /\ ~storeFailed) =>
    \A n \in DOMAIN resumed :
      resumed[n] => \A i \in 1..Len(local[n]) : cloud[n][i] >= 1

\* the records of experiment e after its cursor, and the calls made for e
After(e) == {i \in 1..Len(local[e]) : Matches(local[e][i], dicty_diff[e])}
InsertsOf(e) == SelectSeq(inserts, LAMBDA c : c.exp = e)
BlobsOf(e) == SelectSeq(blobs, LAMBDA b : b.exp = e)

\* C12: once an experiment with N records after its cursor has been processed
\* with no store failure, ceil(N / batch_size) insert calls and as many blob
\* writes were issued for it, the k-th blob with as many records as the k-th
\* insert call; none of either when N = 0.
C12_BatchBoundary ==
  \A e \in DOMAIN dicty_diff :
    (e \notin Range(todo) /\ e \notin DOMAIN aborted) =>
      LET N == Cardinality(After(e))
      IN  /\ Len(InsertsOf(e)) = (N + batch_size - 1) \div batch_size
          /\ Len(BlobsOf(e)) = Len(InsertsOf(e))
          /\ \A k \in 1..Len(InsertsOf(e)) :
                Cardinality(BlobsOf(e)[k].docs) = Cardinality(InsertsOf(e)[k].docs)

\* the cycle is over; one experiment had a full batch and one more record, a
\* second one had nothing after its cursor
C12_Witness ==
  /\ pc = "ret"
  /\ \A j \in 1..Len(blobs) : blobs[j].ok
  /\ \E e \in DOMAIN dicty_diff \ DOMAIN aborted :
       Cardinality(After(e)) = batch_size + 1 /\ Len(BlobsOf(e)) = 2
  /\ \E e \in DOMAIN dicty_diff \ DOMAIN aborted :
       After(e) = {} /\ InsertsOf(e) = <<>>

\* C13: after an insert call in which exactly one document of the batch was
\* rejected, every other document of that batch is in the Cloud Store.
C13_PartialFailureIsolation ==
  \A k \in 1..Len(inserts) :
    inserts[k].rejected \in inserts[k].docs =>
      \A i \in inserts[k].docs \ {inserts[k].rejected} : cloud[inserts[k].exp][i] >= 1

\* the first document of a full batch was rejected and the last one is there
C13_Witness ==
  \E k \in 1..Len(inserts) :
    /\ Cardinality(inserts[k].docs) = batch_size
    /\ inserts[k].rejected = First(inserts[k].docs)
    /\ cloud[inserts[k].exp][Max(inserts[k].docs)] = 1

\* C14: when the cycle is over, an insert call that had documents rejected has
\* not stopped its experiment: the records after that batch are in the Cloud
\* Store and were handed to the Blob Archive, and the experiments after it were
\* pushed in full.
C14_PartialFailureGoesOn ==
  pc = "ret" =>
    \A k \in 1..Len(inserts) :
      inserts[k].rejected \in inserts[k].docs =>
        /\ \A i \in After(inserts[k].exp) :
             i > Max(inserts[k].docs) =>
               /\ cloud[inserts[k].exp][i] >= 1
               /\ \E j \in 1..Len(blobs) :
                    blobs[j].exp = inserts[k].exp /\ i \in blobs[j].docs
        /\ \A n \in DOMAIN dicty_diff \ DOMAIN aborted :
             n > inserts[k].exp => \A i \in After(n) : cloud[n][i] >= 1

\* C15: when the processing of an experiment raises, the other experiments of
\* the cursor set are still pushed in full in that cycle, and the records of
\* the failing experiment are uploaded by the next cycle once the authority
\* reports what is in the Cloud Store and nothing fails.
C15_ExperimentIsolation ==
  /\ (pc = "ret" /\ success = "True") =>
       \A n \in DOMAIN dicty_diff \ DOMAIN aborted :
         \A i \in 1..Len(local[n]) :
           Matches(local[n][i], dicty_diff[n]) => cloud[n][i] >= 1
  /\ (pc = "ret" /\ success = "True" /\ ~storeFailed) =>
       \A n \in DOMAIN resumed : \A i \in 1..Len(local[n]) : cloud[n][i] >= 1

\* the last experiment of the cycle that streamed sensor s, and the Labels of
\* the last document of s it streamed
LastExpOf(s) == Max({e \in DOMAIN dicty_diff : \E i \in After(e) : local[e][i].LLA = s})
FinalLabels(s) ==
  local[LastExpOf(s)][Max({i \in After(LastExpOf(s)) : local[LastExpOf(s)][i].LLA = s})].Labels

C17_Mirroring ==
  \A e \in DOMAIN dicty_diff :
    e \notin Range(todo) =>
      UNION {blobs[j].docs : j \in {x \in 1..Len(blobs) : blobs[x].exp = e /\ blobs[x].ok}}
        = UNION {inserts[k].kept : k \in {x \in 1..Len(inserts) : inserts[x].exp = e}}

\* C18: the experiments a cycle considers (here: those it has a zero for after
\* a non-200 answer, which gives a zero to every one of them) are exactly the
\* collections whose name ends with "_DATA".
C18_ListExperiments ==
  authority = "non200" => zeroFor = {n \in Names : is_DATA[n]}

\* C19: in a cycle in flight, check_exp_name_exists_local gives for every
\* non-empty experiment the minimum and the maximum timestamp of its records,
\* and 0 twice for an empty one.
C19_FirstLastTimestamp ==
  (pc \in {"push", "ret"} /\ authority # "none") =>
    LET dl == check_exp_name_exists_local(exp_names, local)
    IN  \A n \in DOMAIN dl :
          IF local[n] = <<>>
            THEN dl[n].first_local = 0 /\ dl[n].last_local = 0
            ELSE LET T == {local[n][i].ts : i \in 1..Len(local[n])}
                 IN  /\ \A t \in T : dl[n].first_local <= t
                     /\ \A t \in T : dl[n].last_local >= t

\* C20: a cycle on a Local Store with documents of either TimeStamp form does
\* not raise while reading them, and when it returns True every document later
\* than the cursor of an experiment pushed without failure is in the Cloud
\* Store, whatever its form.
C20_BothRepresentations ==
  pc = "ret" =>
    /\ raisedAt # "read"
    /\ success = "True" =>
         \A n \in DOMAIN dicty_diff \ DOMAIN aborted :
           \A i \in 1..Len(local[n]) :
             (dicty_diff[n] = 0 \/ local[n][i].ts > dicty_diff[n]) => cloud[n][i] >= 1

\* C21: whatever the outcomes of the cycles, exceptions caught by the handler
\* of the loop included, wait_time stays within a fixed bound, the 195 minutes
\* that the failure branch can reach.
C21_WaitBounded == wait_time <= 195 * MINUTE

\* C22: a cycle in which nothing raised, whose cursor set is empty and which
\* uploaded nothing takes the failure branch of the scheduler: first_try
\* becomes false, and wait_time grows by 15 minutes unless this is the first
\* such cycle.
C22_NothingSyncedBacksOff ==
  [][(pc = "ret" /\ raisedAt = "none" /\ DOMAIN dicty_diff = {}) =>
       /\ ~first_try'
       /\ wait_time' = IF first_try THEN wait_time ELSE wait_time + 15 * MINUTE]_vars

\* C23: on a falsy result, if no cycle has failed since the start or the last
\* success wait_time is unchanged and first_try becomes false; otherwise
\* wait_time grows by exactly 15 minutes when it is at most 3 hours and is set
\* to 15 minutes when it is above, first_try staying false.
C23_BackoffStep ==
  [][(pc = "ret" /\ success = "None") =>
       IF nfail = 0
         THEN first_try /\ wait_time' = wait_time /\ ~first_try'
         ELSE /\ ~first_try /\ ~first_try'
              /\ wait_time <= 180 * MINUTE => wait_time' = wait_time + 15 * MINUTE
              /\ wait_time > 180 * MINUTE => wait_time' = 15 * MINUTE]_vars

\* a falsy result has just taken wait_time from above 3 hours back to 15 minutes
C23_Witness ==
  /\ pc = "sleep" /\ success = "None" /\ nfail > 0
  /\ slept > 180 * MINUTE /\ wait_time = 15 * MINUTE /\ ~first_try

\* C24: when the resolver has run on an answer of the authority that gives
\* every experiment 0 or a date-time, then for every experiment with a local
\* record, e being local_first when the answer is 0 and the time answered
\* otherwise, the experiment is in the cursor set exactly when
\* local_last - e > 0, and its cursor is then e.
C24_ResolverRule ==
  (pc = "push" /\ ~transformed_data.none) =>
    \A n \in {m \in exp_names : is_DATA[m]} :
      (local[n] # <<>> /\ n \in DOMAIN transformed_data.data) =>
        LET e == IF transformed_data.data[n] = Zero THEN local[n][1].ts
                 ELSE transformed_data.data[n].t
        IN  /\ n \in DOMAIN dicty_diff <=> local[n][Len(local[n])].ts - e > 0
            /\ n \in DOMAIN dicty_diff => dicty_diff[n] = e

\* one experiment is selected with the time answered as cursor, another is
\* left out, the time answered being that of its last record
C24_Witness ==
  /\ pc = "push" /\ resp.kind = "ok"
  /\ \E n \in DOMAIN dicty_diff :
       transformed_data.data[n] # Zero /\ dicty_diff[n] = transformed_data.data[n].t
  /\ \E n \in DOMAIN transformed_data.data \ DOMAIN dicty_diff :
       /\ local[n] # <<>> /\ transformed_data.data[n] # Zero
       /\ local[n][Len(local[n])].ts = transformed_data.data[n].t

\* C25: once an experiment has been processed with no store failure, the
\* records inserted for it in the cycle are exactly the local records with a
\* timestamp strictly greater than its cursor, or all its local records when
\* the cursor is the zero sentinel.
C25_StrictCursor ==
  \A e \in DOMAIN dicty_diff :
    (e \notin Range(todo) /\ e \notin DOMAIN aborted) =>
      UNION {inserts[k].kept : k \in {x \in 1..Len(inserts) : inserts[x].exp = e}}
        = IF dicty_diff[e] = 0 THEN 1..Len(local[e])
          ELSE {i \in 1..Len(local[e]) : local[e][i].ts > dicty_diff[e]}

\* the cycle is over; a record whose timestamp is the cursor was not sent while
\* the records after it were
C25_Witness ==
  /\ pc = "ret"
  /\ \E e \in DOMAIN dicty_diff \ DOMAIN aborted :
       \E i \in 1..Len(local[e]) :
         /\ local[e][i].ts = dicty_diff[e]
         /\ cloud[e][i] = 1
         /\ \A k \in 1..Len(inserts) : ~(inserts[k].exp = e /\ i \in inserts[k].docs)
         /\ i < Len(local[e])
         /\ \A j \in (i + 1)..Len(local[e]) : cloud[e][j] = 1

\* the sensors of the records of e after its cursor, and the Labels of the
\* last of them for sensor s
SensorsAfter(e) == {local[e][i].LLA : i \in After(e)}
LastLabels(e, s) == local[e][Max({i \in After(e) : local[e][i].LLA = s})].Labels

RECURSIVE Flatten(_)
Flatten(ss) == IF ss = <<>> THEN <<>> ELSE Head(ss) \o Flatten(Tail(ss))

\* the elements of a set of numbers in increasing order
SortedSeq(S) ==
  CHOOSE f \in [1..Cardinality(S) -> S] : \A i, j \in 1..Cardinality(S) : i < j => f[i] < f[j]

\* the batches passed to the insert calls of e, one after the other
Passed(e) == Flatten([k \in 1..Len(InsertsOf(e)) |-> InsertsOf(e)[k].seq])

\* C28: the batch never holds more than batch_size records; every insert call
\* receives from 1 to batch_size records, and batch_size when it is not the
\* last of its experiment; the batches passed to the insert calls, followed by
\* the batch in hand, are the records streamed, in order, each once.
C28_BatchAccumulation ==
  /\ Len(batch) <= batch_size
  /\ \A k \in 1..Len(inserts) : Len(inserts[k].seq) \in 1..batch_size
  /\ \A e \in DOMAIN dicty_diff :
       /\ \A k \in 1..(Len(InsertsOf(e)) - 1) : Len(InsertsOf(e)[k].seq) = batch_size
       /\ IF todo # <<>> /\ e = Head(todo)
            THEN Passed(e) \o batch = SortedSeq(Streamed(e))
            ELSE IF e \notin Range(todo) /\ e \notin DOMAIN aborted
                   THEN Passed(e) = SortedSeq(After(e))
                   ELSE /\ Len(Passed(e)) <= Cardinality(After(e))
                        /\ Passed(e) = SubSeq(SortedSeq(After(e)), 1, Len(Passed(e)))

\* the cycle is over; an experiment was passed in two calls, a full batch and
\* then the one record left
C28_Witness ==
  /\ pc = "ret"
  /\ \E e \in DOMAIN dicty_diff \ DOMAIN aborted :
       /\ Len(InsertsOf(e)) = 2
       /\ Len(InsertsOf(e)[1].seq) = batch_size
       /\ Len(InsertsOf(e)[2].seq) = 1
       /\ Passed(e) = SortedSeq(After(e))

\* C27: when every call returns, wait_time is a multiple of 15 minutes from
\* 15 to 195 minutes, and first_try is false whenever it is above 15 minutes.
C27_BackoffRange ==
  /\ \E k \in 1..13 : wait_time = k * 15 * MINUTE
  /\ wait_time > 15 * MINUTE => ~first_try

\* wait_time at its greatest, 195 minutes, about to be slept
C27_Witness == pc = "sleep" /\ wait_time = 195 * MINUTE /\ ~first_try

\* C29: once listing and resolving are done, Mongo_Push_Cloud returns True
\* whatever the uploads did, every experiment raising or every blob write
\* failing included, and the scheduler then sets wait_time to 15 minutes and
\* first_try to true.
C29_OutcomeIndependent ==
  /\ pc = "ret" => success = "True"
  /\ pc = "sleep" => (success = "True" /\ wait_time = 15 * MINUTE /\ first_try)

\* the scheduler has reset a wait of 30 minutes after a cycle in which every
\* experiment with records to upload raised and every blob write failed
C29_Witness ==
  /\ pc = "sleep" /\ slept = 30 * MINUTE /\ wait_time = 15 * MINUTE /\ first_try
  /\ DOMAIN aborted # {}
  /\ \A e \in DOMAIN dicty_diff : After(e) # {} => e \in DOMAIN aborted
  /\ blobs # <<>>
  /\ \A j \in 1..Len(blobs) : ~blobs[j].ok

\* C30: when the resolver has been called with an answer for every experiment
\* asked that holds, for an experiment, a value no format parses, or a value
\* for an experiment with no local record, that experiment is in the cursor
\* set with local_first as cursor (0 when it has no record), and the other
\* experiments are resolved by the rule of C24.
C30_ResolverFallback ==
  (pc \in {"push", "ret"} /\ resp.kind = "ok"
     /\ DOMAIN resp.body = {m \in exp_names : is_DATA[m]}) =>
    \A n \in DOMAIN resp.body :
      IF resp.body[n] = BadStr \/ local[n] = <<>>
        THEN /\ n \in DOMAIN dicty_diff
             /\ dicty_diff[n] = IF local[n] = <<>> THEN 0 ELSE local[n][1].ts
        ELSE LET e == IF resp.body[n] = Zero THEN local[n][1].ts ELSE resp.body[n].t
             IN  /\ n \in DOMAIN dicty_diff <=> local[n][Len(local[n])].ts - e > 0
                 /\ n \in DOMAIN dicty_diff => dicty_diff[n] = e

====
